---- MODULE Spec2Model ----
(***************************************************************************)
(* Symbol table with two backends (lab3): an unbalanced binary search tree *)
(* (st_bst.c) and a chained hash table with load-factor resizing           *)
(* (st_hashtable.c).  Both tables are driven with the same sequence of     *)
(* st_add / st_search calls, ended by st_destroy.  Memory is modelled as   *)
(* two heaps of records, pointers are heap indices and NULL is 0.  A       *)
(* second specification, SpecHash, applies hash_function alone to names    *)
(* and capacities the tables of the first do not reach.                    *)
(***************************************************************************)
EXTENDS Integers, Sequences, FiniteSets, TLC

\* ------------------------------------------------------------------ bounds
\* number of distinct names one run introduces
MaxAdds == 16
\* the orders in which a run introduces the names: rotations 0..MaxRot of the
\* pool, walked with strides 1..MaxStride
MaxRot == 2
MaxStride == 2
\* hash_function alone: byte strings of every length up to MaxHashLen over
\* HashBytes, and first capacities 1..MaxHashCap
MaxHashLen == 2
MaxHashCap == 20

\* ------------------------------------------------------- program constants
INITIAL_TABLE_SIZE == 10
\* LOAD_FACTOR_THRESHOLD 0.75 as the fraction ThresholdNum / ThresholdDen
ThresholdNum == 3
ThresholdDen == 4
NULL == 0
NotFound == 0 - 1
\* unsigned long is 64 bits, held as four limbs of LimbBase (2^16) each
LimbBase == 65536
DJB2_SEED == 5381

\* ------------------------------------------------------------------- names
\* A name is a C string: the sequence of its chars, without the final NUL.
\* A char is the value the build reads from the byte: the byte itself up to
\* 127; a byte from 128 on is the byte where plain char is unsigned and
\* byte - 256 where plain char is signed.
Pool ==
  << <<118, 97, 114, 105, 97, 98, 108, 101, 49>>,            \* "variable1"
     <<99, 111, 117, 110, 116>>,                               \* "count"
     <<115, 117, 109>>,                                        \* "sum"
     <<97, 114, 114, 97, 121>>,                                \* "array"
     <<105, 110, 100, 101, 120>>,                              \* "index"
     <<114, 101, 115, 117, 108, 116>>,                         \* "result"
     <<116, 101, 109, 112>>,                                   \* "temp"
     <<109, 97, 120>>,                                         \* "max"
     <<109, 105, 110>>,                                        \* "min"
     <<118, 97, 108, 117, 101>>,                               \* "value"
     <<100, 97, 116, 97>>,                                     \* "data"
     <<102, 108, 97, 103>>,                                    \* "flag"
     <<115, 116, 97, 116, 117, 115>>,                          \* "status"
     <<110, 111, 110, 101, 120, 105, 115, 116, 101, 110, 116>>,\* "nonexistent"
     <<105>>,                                                  \* "i"
     <<106>>,                                                  \* "j"
     <<107>>                                                   \* "k"
  >>

PoolLen == Len(Pool)

PoolNames == {Pool[i] : i \in 1..PoolLen}

Range(s) == {s[i] : i \in 1..Len(s)}

Min(a, b) == IF a < b THEN a ELSE b

\* the order in which a run introduces new names: rotation r, stride s
Order(r, s) ==
  [i \in 1..Min(MaxAdds, PoolLen) |-> Pool[((r + (i - 1) * s) % PoolLen) + 1]]

Orders == {Order(r, s) : r \in 0..MaxRot, s \in 1..MaxStride}

\* the bytes the names given to hash_function are made of
HashBytes == {1, 97, 127, 128, 200, 255}

\* all byte strings over HashBytes of length up to MaxHashLen, the empty
\* string included
ShortBytes == UNION { [1..n -> HashBytes] : n \in 0..MaxHashLen }

\* longer byte strings: 10 bytes (the hash stays below 2^64) and 11 or 12
\* bytes (the hash wraps)
LongBytes ==
  { Pool[1], Pool[14],
    <<255, 255, 255, 255, 255, 255, 255, 255, 255, 255>>,
    <<200, 97, 128, 97, 255, 97, 1, 97, 129, 97, 250>>,
    <<128, 128, 128, 128, 128, 128, 128, 128, 128, 128, 128, 128>> }

HashInputBytes == ShortBytes \cup LongBytes

\* the C string the build reads from a byte string
AsChars(bytes, signed) ==
  [i \in 1..Len(bytes) |->
     IF signed /\ bytes[i] >= 128 THEN bytes[i] - 256 ELSE bytes[i]]

\* ------------------------------------------------------------------ strcmp
\* str[i] as a char; the end of a string is the NUL char 0
ByteAt(str, i) == IF i <= Len(str) THEN str[i] ELSE 0

\* a char taken as unsigned char
UChar(c) == (c + 256) % 256

RECURSIVE strcmp_from(_, _, _)
\* byte-wise comparison; strcmp compares the chars as unsigned char
strcmp_from(a, b, i) ==
  IF ByteAt(a, i) # ByteAt(b, i) THEN UChar(ByteAt(a, i)) - UChar(ByteAt(b, i))
  ELSE IF ByteAt(a, i) = 0 THEN 0
  ELSE strcmp_from(a, b, i + 1)

strcmp(a, b) == strcmp_from(a, b, 1)

\* ----------------------------------------------------------- unsigned long
\* An unsigned long (64 bits) is the little-endian tuple of its four 16-bit
\* limbs; arithmetic wraps modulo 2^64.
\* The conversion of an int to unsigned long: a negative int (a char with
\* the top bit set, where plain char is signed) is sign-extended, that is
\* 2^64 + n.
ULFromInt(n) ==
  IF n >= 0
  THEN << n % LimbBase, (n \div LimbBase) % LimbBase, 0, 0 >>
  ELSE << LimbBase + n, LimbBase - 1, LimbBase - 1, LimbBase - 1 >>

\* a * m + b, wrapping: the carry out of the top limb is dropped
ULMulAdd(a, m, b) ==
  LET t1 == a[1] * m + b[1]
      t2 == a[2] * m + b[2] + (t1 \div LimbBase)
      t3 == a[3] * m + b[3] + (t2 \div LimbBase)
      t4 == a[4] * m + b[4] + (t3 \div LimbBase)
  IN << t1 % LimbBase, t2 % LimbBase, t3 % LimbBase, t4 % LimbBase >>

\* a mod m, most significant limb first (Horner's rule)
ULMod(a, m) ==
  LET r4 == a[4] % m
      r3 == (r4 * LimbBase + a[3]) % m
      r2 == (r3 * LimbBase + a[2]) % m
  IN (r2 * LimbBase + a[1]) % m

\* ----------------------------------------------------------- hash backend
\* variant: hash << 5 alone, the "+ hash" is missing
djb2_step_shift(hash, c) == ULMulAdd(hash, 32, ULFromInt(c))

\* hash = ((hash << 5) + hash) + c, which is hash * 33 + c modulo 2^64
djb2_step(hash, c) == ULMulAdd(hash, 33, ULFromInt(c))

RECURSIVE djb2(_, _)
\* the while loop of hash_function; the loop state s is the value of hash and
\* the index i of the byte that str points at
djb2(s, str) ==
  IF ByteAt(str, s.i) = 0 THEN s.hash
  ELSE djb2([hash |-> djb2_step(s.hash, ByteAt(str, s.i)), i |-> s.i + 1], str)

\* hash_function: the loop from the seed, then hash % capacity
hash_function(str, capacity) ==
  ULMod(djb2([hash |-> ULFromInt(DJB2_SEED), i |-> 1], str), capacity)

\* calloc(capacity, sizeof(HTEntry* )): bucket heads, indexed 0..capacity-1
EmptyBuckets(capacity) == [i \in 0..(capacity - 1) |-> NULL]

\* st_create returns the table struct; no entry is allocated yet
st_create_ht ==
  [buckets |-> EmptyBuckets(INITIAL_TABLE_SIZE),
   capacity |-> INITIAL_TABLE_SIZE,
   size |-> 0,
   next_position |-> 0]

\* create_entry: malloc is the next free heap index
create_entry(mem, name, position) ==
  [mem |-> Append(mem, [name |-> name, position |-> position, next |-> NULL]),
   entry |-> Len(mem) + 1]

RECURSIVE search_chain(_, _, _)
\* the while loop of st_search, from chain entry `entry`
search_chain(mem, entry, name) ==
  IF entry = NULL THEN NotFound
  ELSE IF strcmp(mem[entry].name, name) = 0 THEN mem[entry].position
  ELSE search_chain(mem, mem[entry].next, name)

\* variant: the bucket index is taken at the initial capacity
st_search_ht_stale(st, mem, name) ==
  search_chain(mem, st.buckets[hash_function(name, INITIAL_TABLE_SIZE)], name)

st_search_ht(st, mem, name) ==
  search_chain(mem, st.buckets[hash_function(name, st.capacity)], name)

RECURSIVE rehash_chain_oldcap(_, _, _)
\* variant: the new bucket index is computed at the old capacity
rehash_chain_oldcap(st, mem, entry) ==
  IF entry = NULL THEN [st |-> st, mem |-> mem]
  ELSE LET next == mem[entry].next
           index == hash_function(mem[entry].name, st.capacity \div 2)
           mem2 == [mem EXCEPT ![entry].next = st.buckets[index]]
           st2 == [st EXCEPT !.buckets[index] = entry, !.size = @ + 1]
       IN rehash_chain_oldcap(st2, mem2, next)

RECURSIVE rehash_chain_tail(_, _, _)
\* variant: a moved entry is linked at the tail of its new bucket
rehash_chain_tail(st, mem, entry) ==
  IF entry = NULL THEN [st |-> st, mem |-> mem]
  ELSE LET RECURSIVE last(_)
           last(e) == IF mem[e].next = NULL THEN e ELSE last(mem[e].next)
           next == mem[entry].next
           index == hash_function(mem[entry].name, st.capacity)
           head == st.buckets[index]
           mem2 == IF head = NULL
                   THEN [mem EXCEPT ![entry].next = NULL]
                   ELSE [mem EXCEPT ![last(head)].next = entry,
                                    ![entry].next = NULL]
           st2 == [st EXCEPT !.buckets[index] = IF head = NULL THEN entry ELSE head,
                             !.size = @ + 1]
       IN rehash_chain_tail(st2, mem2, next)

RECURSIVE rehash_chain(_, _, _)
\* the inner while loop of st_resize: moves the chain starting at `entry`
\* to the heads of its new buckets
rehash_chain(st, mem, entry) ==
  IF entry = NULL THEN [st |-> st, mem |-> mem]
  ELSE LET next == mem[entry].next
           index == hash_function(mem[entry].name, st.capacity)
           mem2 == [mem EXCEPT ![entry].next = st.buckets[index]]
           st2 == [st EXCEPT !.buckets[index] = entry, !.size = @ + 1]
       IN rehash_chain(st2, mem2, next)

RECURSIVE rehash_from(_, _, _)
\* the for loop of st_resize; the loop state s is the table, the heap and
\* the index i of the old bucket to move next
rehash_from(s, old_buckets, old_capacity) ==
  IF s.i >= old_capacity THEN [st |-> s.st, mem |-> s.mem]
  ELSE LET r == rehash_chain(s.st, s.mem, old_buckets[s.i])
       IN rehash_from([st |-> r.st, mem |-> r.mem, i |-> s.i + 1],
                      old_buckets, old_capacity)

\* variant: the position counter is reset together with size
st_resize_reset(st, mem) ==
  LET old_capacity == st.capacity
      old_buckets == st.buckets
      st1 == [st EXCEPT !.capacity = st.capacity * 2,
                        !.buckets = EmptyBuckets(st.capacity * 2),
                        !.size = 0,
                        !.next_position = 0]
  IN rehash_from([st |-> st1, mem |-> mem, i |-> 0], old_buckets, old_capacity)

\* variant: size is not reset before the entries are counted again
st_resize_keepsize(st, mem) ==
  LET old_capacity == st.capacity
      old_buckets == st.buckets
      st1 == [st EXCEPT !.capacity = st.capacity * 2,
                        !.buckets = EmptyBuckets(st.capacity * 2)]
  IN rehash_from([st |-> st1, mem |-> mem, i |-> 0], old_buckets, old_capacity)

st_resize(st, mem) ==
  LET old_capacity == st.capacity
      old_buckets == st.buckets
      st1 == [st EXCEPT !.capacity = st.capacity * 2,
                        !.buckets = EmptyBuckets(st.capacity * 2),
                        !.size = 0]
  IN rehash_from([st |-> st1, mem |-> mem, i |-> 0], old_buckets, old_capacity)

\* variant: the load factor is taken before counting the new entry
LoadExceeded_current(size, capacity) ==
  ThresholdDen * size > ThresholdNum * capacity

\* variant: the quotient is an integer division (the float cast is missing)
LoadExceeded_intdiv(size, capacity) ==
  ThresholdDen * ((size + 1) \div capacity) > ThresholdNum

\* variant: the threshold itself already triggers the resize (>= for >)
LoadExceeded_geq(size, capacity) ==
  ThresholdDen * (size + 1) >= ThresholdNum * capacity

\* (float)(size + 1) / capacity > LOAD_FACTOR_THRESHOLD.  For the sizes and
\* capacities of the model the float quotient is on the same side of 0.75 as
\* the exact quotient, so the test is the integer cross-multiplication.
LoadExceeded(size, capacity) ==
  ThresholdDen * (size + 1) > ThresholdNum * capacity

\* variant: ++st->next_position, the value after the increment
TakePosition_preinc(st) ==
  [position |-> st.next_position + 1,
   st |-> [st EXCEPT !.next_position = @ + 1]]

\* position = st->next_position++ : the value before the increment
TakePosition(st) ==
  [position |-> st.next_position,
   st |-> [st EXCEPT !.next_position = @ + 1]]

\* variant: the load factor is tested before the search for the name
st_add_ht_growfirst(st, mem, name) ==
  LET grow == LoadExceeded(st.size, st.capacity)
      r == IF grow THEN st_resize(st, mem) ELSE [st |-> st, mem |-> mem]
      existing_pos == st_search_ht(r.st, r.mem, name)
  IN IF existing_pos # NotFound
     THEN [st |-> r.st, mem |-> r.mem, ret |-> existing_pos, resized |-> grow]
     ELSE LET index == hash_function(name, r.st.capacity)
              t == TakePosition(r.st)
              e == create_entry(r.mem, name, t.position)
              mem2 == [e.mem EXCEPT ![e.entry].next = t.st.buckets[index]]
              st2 == [t.st EXCEPT !.buckets[index] = e.entry, !.size = @ + 1]
          IN [st |-> st2, mem |-> mem2, ret |-> t.position, resized |-> grow]

\* variant: the bucket index is computed before the resize
st_add_ht_earlyindex(st, mem, name) ==
  LET existing_pos == st_search_ht(st, mem, name)
  IN IF existing_pos # NotFound
     THEN [st |-> st, mem |-> mem, ret |-> existing_pos, resized |-> FALSE]
     ELSE LET index == hash_function(name, st.capacity)
              grow == LoadExceeded(st.size, st.capacity)
              r == IF grow THEN st_resize(st, mem) ELSE [st |-> st, mem |-> mem]
              t == TakePosition(r.st)
              e == create_entry(r.mem, name, t.position)
              mem2 == [e.mem EXCEPT ![e.entry].next = t.st.buckets[index]]
              st2 == [t.st EXCEPT !.buckets[index] = e.entry, !.size = @ + 1]
          IN [st |-> st2, mem |-> mem2, ret |-> t.position, resized |-> grow]

st_add_ht(st, mem, name) ==
  LET existing_pos == st_search_ht(st, mem, name)
  IN IF existing_pos # NotFound
     THEN [st |-> st, mem |-> mem, ret |-> existing_pos, resized |-> FALSE]
     ELSE LET grow == LoadExceeded(st.size, st.capacity)
              r == IF grow THEN st_resize(st, mem) ELSE [st |-> st, mem |-> mem]
              index == hash_function(name, r.st.capacity)
              t == TakePosition(r.st)
              e == create_entry(r.mem, name, t.position)
              mem2 == [e.mem EXCEPT ![e.entry].next = t.st.buckets[index]]
              st2 == [t.st EXCEPT !.buckets[index] = e.entry, !.size = @ + 1]
          IN [st |-> st2, mem |-> mem2, ret |-> t.position, resized |-> grow]

\* ------------------------------------------------- release of allocations
\* A heap event names the access and the allocation it touches.
Read(obj) == [op |-> "read", obj |-> obj]

Free(obj) == [op |-> "free", obj |-> obj]

\* the allocations of the hash backend: the table struct (malloc in
\* st_create), the bucket array number g (calloc in st_create for g = 0, in
\* the g-th st_resize otherwise), and for the entry at heap index e the
\* HTEntry (malloc) and its name (strdup)
HTTableAlloc == << "table", 0 >>

HTBucketsAlloc(g) == << "buckets", g >>

HTEntryAlloc(e) == << "entry", e >>

HTNameAlloc(e) == << "name", e >>

\* what st_resize does to the bucket array number g that it supersedes: the
\* for loop reads old_buckets[i] for every old bucket, then free(old_buckets)
st_resize_release(g, old_capacity) ==
  [i \in 1..(old_capacity + 1) |->
     IF i <= old_capacity THEN Read(HTBucketsAlloc(g)) ELSE Free(HTBucketsAlloc(g))]

RECURSIVE destroy_chain_freefirst(_, _)
\* variant: the entry is freed before its next pointer is read
destroy_chain_freefirst(mem, entry) ==
  IF entry = NULL THEN << >>
  ELSE << Read(HTEntryAlloc(entry)), Free(HTNameAlloc(entry)),
          Free(HTEntryAlloc(entry)), Read(HTEntryAlloc(entry)) >>
       \o destroy_chain_freefirst(mem, mem[entry].next)

RECURSIVE destroy_chain(_, _)
\* the while loop of st_destroy: next = entry->next; free(entry->name);
\* free(entry); entry = next
destroy_chain(mem, entry) ==
  IF entry = NULL THEN << >>
  ELSE << Read(HTEntryAlloc(entry)), Read(HTEntryAlloc(entry)),
          Free(HTNameAlloc(entry)), Free(HTEntryAlloc(entry)) >>
       \o destroy_chain(mem, mem[entry].next)

\* one round of the for loop of st_destroy: i < st->capacity, st->buckets,
\* buckets[i], then the chain of bucket i; g is the number of the current
\* bucket array
destroy_bucket(st, mem, g, i) ==
  << Read(HTTableAlloc), Read(HTTableAlloc), Read(HTBucketsAlloc(g)) >>
  \o destroy_chain(mem, st.buckets[i])

RECURSIVE destroy_range(_, _, _, _, _)
\* the rounds lo .. hi - 1 of the for loop of st_destroy, in order.  No round
\* writes what another round reads, so the events of a range of rounds are
\* the events of its first half followed by those of its second half.
destroy_range(st, mem, g, lo, hi) ==
  IF hi <= lo THEN << >>
  ELSE IF hi = lo + 1 THEN destroy_bucket(st, mem, g, lo)
  ELSE LET mid == (lo + hi) \div 2
       IN destroy_range(st, mem, g, lo, mid) \o destroy_range(st, mem, g, mid, hi)

\* st_destroy of the hash backend: the loop over all buckets, the test
\* i < st->capacity that ends it, free(st->buckets), free(st)
st_destroy_ht(st, mem, g) ==
  destroy_range(st, mem, g, 0, st.capacity)
  \o << Read(HTTableAlloc), Read(HTTableAlloc), Free(HTBucketsAlloc(g)),
        Free(HTTableAlloc) >>

\* ------------------------------------------------------------ BST backend
st_create_bst == [root |-> NULL, size |-> 0]

\* create_node: malloc is the next free heap index
create_node(mem, name, position) ==
  [mem |-> Append(mem, [name |-> name, position |-> position,
                        left |-> NULL, right |-> NULL]),
   node |-> Len(mem) + 1]

\* variant: equal keys descend to the left
GoesLeft_orEqual(cmp) == cmp <= 0

\* the three-way branch of insert_node and search_node on cmp
GoesLeft(cmp) == cmp < 0

GoesRight(cmp) == cmp > 0

RECURSIVE insert_node_keep(_, _, _, _, _)
\* variant: an existing name leaves *position as the caller set it
insert_node_keep(mem, root, name, position, found) ==
  IF root = NULL
  THEN LET c == create_node(mem, name, position)
       IN [mem |-> c.mem, root |-> c.node, position |-> position, found |-> 0]
  ELSE LET cmp == strcmp(name, mem[root].name)
       IN IF GoesLeft(cmp)
          THEN LET r == insert_node_keep(mem, mem[root].left, name, position, found)
               IN [mem |-> [r.mem EXCEPT ![root].left = r.root], root |-> root,
                   position |-> r.position, found |-> r.found]
          ELSE IF GoesRight(cmp)
          THEN LET r == insert_node_keep(mem, mem[root].right, name, position, found)
               IN [mem |-> [r.mem EXCEPT ![root].right = r.root], root |-> root,
                   position |-> r.position, found |-> r.found]
          ELSE [mem |-> mem, root |-> root, position |-> position, found |-> 1]

RECURSIVE insert_node(_, _, _, _, _)
\* returns the (sub)tree root, the heap, and the out-parameters
\* *position and *found
insert_node(mem, root, name, position, found) ==
  IF root = NULL
  THEN LET c == create_node(mem, name, position)
       IN [mem |-> c.mem, root |-> c.node, position |-> position, found |-> 0]
  ELSE LET cmp == strcmp(name, mem[root].name)
       IN IF GoesLeft(cmp)
          THEN LET r == insert_node(mem, mem[root].left, name, position, found)
               IN [mem |-> [r.mem EXCEPT ![root].left = r.root], root |-> root,
                   position |-> r.position, found |-> r.found]
          ELSE IF GoesRight(cmp)
          THEN LET r == insert_node(mem, mem[root].right, name, position, found)
               IN [mem |-> [r.mem EXCEPT ![root].right = r.root], root |-> root,
                   position |-> r.position, found |-> r.found]
          ELSE [mem |-> mem, root |-> root,
                position |-> mem[root].position, found |-> 1]

\* variant: size is incremented whether or not the name was found
st_add_bst_count(st, mem, name) ==
  LET r == insert_node(mem, st.root, name, st.size, 0)
      st1 == [st EXCEPT !.root = r.root]
      st2 == [st1 EXCEPT !.size = @ + 1]
  IN [st |-> st2, mem |-> r.mem, ret |-> r.position]

st_add_bst(st, mem, name) ==
  LET r == insert_node(mem, st.root, name, st.size, 0)
      st1 == [st EXCEPT !.root = r.root]
      st2 == IF r.found = 0 THEN [st1 EXCEPT !.size = @ + 1] ELSE st1
  IN [st |-> st2, mem |-> r.mem, ret |-> r.position]

RECURSIVE search_node(_, _, _)
search_node(mem, root, name) ==
  IF root = NULL THEN NULL
  ELSE LET cmp == strcmp(name, mem[root].name)
       IN IF GoesLeft(cmp) THEN search_node(mem, mem[root].left, name)
          ELSE IF GoesRight(cmp) THEN search_node(mem, mem[root].right, name)
          ELSE root

\* variant: a missing name yields 0
st_search_bst_zero(st, mem, name) ==
  LET node == search_node(mem, st.root, name)
  IN IF node # NULL THEN mem[node].position ELSE 0

st_search_bst(st, mem, name) ==
  LET node == search_node(mem, st.root, name)
  IN IF node # NULL THEN mem[node].position ELSE NotFound

RECURSIVE inorder_traversal(_, _)
\* the names in the order inorder_traversal prints them
inorder_traversal(mem, root) ==
  IF root = NULL THEN << >>
  ELSE inorder_traversal(mem, mem[root].left)
       \o << mem[root].name >>
       \o inorder_traversal(mem, mem[root].right)

\* the allocations of the BST backend: the table struct, and for the node at
\* heap index n the BSTNode (malloc) and its name (strdup)
BSTTableAlloc == << "table", 0 >>

BSTNodeAlloc(n) == << "node", n >>

BSTNameAlloc(n) == << "name", n >>

RECURSIVE free_tree(_, _)
\* free_tree(root->left); free_tree(root->right); free(root->name);
\* free(root): each of the four reads a field of *root
free_tree(mem, root) ==
  IF root = NULL THEN << >>
  ELSE << Read(BSTNodeAlloc(root)) >>
       \o free_tree(mem, mem[root].left)
       \o << Read(BSTNodeAlloc(root)) >>
       \o free_tree(mem, mem[root].right)
       \o << Read(BSTNodeAlloc(root)), Free(BSTNameAlloc(root)),
             Free(BSTNodeAlloc(root)) >>

\* st_destroy of the BST backend: free_tree(st->root); free(st)
st_destroy_bst(st, mem) ==
  << Read(BSTTableAlloc) >> \o free_tree(mem, st.root) \o << Free(BSTTableAlloc) >>

\* ------------------------------------------------------------------- state
VARIABLES
  ht,          \* the SymbolTableHT struct
  htmem,       \* heap of HTEntry records
  bst,         \* the SymbolTableBST struct
  bstmem,      \* heap of BSTNode records
  order,       \* the order in which this run's caller introduces new names
  seen,        \* history: the distinct names added so far, in first-add order
  firstRet,    \* history: firstRet[i] = <<BST, hash>> results of the add
               \* that introduced seen[i]
  allDistinct, \* history: no add so far repeated a name
  resizes,     \* history: number of st_resize calls so far
  htTrace,     \* history: the heap events of the hash backend that release
               \* an allocation (st_resize on old_buckets, st_destroy)
  bstTrace,    \* history: the heap events of st_destroy in the BST backend
  lastOp,      \* "create", "add", "search" or "destroy": the call that just
               \* returned
  lastName,    \* its name argument
  retBST,      \* its result in the BST backend
  retHT,       \* its result in the hash backend
  hf           \* the call of hash_function under study: the bytes of the
               \* name, whether plain char is signed, the capacity, the index
               \* returned and the index returned at the capacity before

vars == <<ht, htmem, bst, bstmem, order, seen, firstRet, allDistinct, resizes,
          htTrace, bstTrace, lastOp, lastName, retBST, retHT, hf>>

\* no call of hash_function is under study
NoHashCall ==
  [bytes |-> << >>, signed |-> TRUE, capacity |-> INITIAL_TABLE_SIZE,
   index |-> NotFound, before |-> NotFound]

\* both tables right after st_create()
TablesCreated ==
  /\ ht = st_create_ht
  /\ htmem = << >>
  /\ bst = st_create_bst
  /\ bstmem = << >>
  /\ order \in Orders
  /\ seen = << >>
  /\ firstRet = << >>
  /\ allDistinct = TRUE
  /\ resizes = 0
  /\ htTrace = << >>
  /\ bstTrace = << >>
  /\ lastOp = "create"
  /\ lastName = << >>
  /\ retBST = NotFound
  /\ retHT = NotFound

Init == TablesCreated /\ hf = NoHashCall

\* the names an add may be called with: any name added before, or the next
\* new name of the run's order
AddInputs ==
  Range(seen) \cup (IF Len(seen) < Len(order) THEN {order[Len(seen) + 1]} ELSE {})

\* the tables exist: st_destroy has not been called
Live == lastOp # "destroy"

\* st_add(st, name) on both tables
Add ==
  \E name \in AddInputs :
    LET h == st_add_ht(ht, htmem, name)
        b == st_add_bst(bst, bstmem, name)
        new == name \notin Range(seen)
    IN /\ Live
       /\ ht' = h.st
       /\ htmem' = h.mem
       /\ bst' = b.st
       /\ bstmem' = b.mem
       /\ seen' = IF new THEN Append(seen, name) ELSE seen
       /\ firstRet' = IF new THEN Append(firstRet, <<b.ret, h.ret>>) ELSE firstRet
       /\ allDistinct' = (allDistinct /\ new)
       /\ resizes' = IF h.resized THEN resizes + 1 ELSE resizes
       /\ htTrace' = IF h.resized
                     THEN htTrace \o st_resize_release(resizes, ht.capacity)
                     ELSE htTrace
       /\ lastOp' = "add"
       /\ lastName' = name
       /\ retBST' = b.ret
       /\ retHT' = h.ret
       /\ UNCHANGED <<order, bstTrace, hf>>

\* st_search(st, name) on both tables
Search ==
  \E name \in PoolNames :
    /\ Live
    /\ lastOp' = "search"
    /\ lastName' = name
    /\ retBST' = st_search_bst(bst, bstmem, name)
    /\ retHT' = st_search_ht(ht, htmem, name)
    /\ UNCHANGED <<ht, htmem, bst, bstmem, order, seen, firstRet, allDistinct,
                   resizes, htTrace, bstTrace, hf>>

\* st_destroy(st) on both tables, the last call of a run; the table and heap
\* variables keep what the released memory held
Destroy ==
  /\ Live
  /\ htTrace' = htTrace \o st_destroy_ht(ht, htmem, resizes)
  /\ bstTrace' = bstTrace \o st_destroy_bst(bst, bstmem)
  /\ lastOp' = "destroy"
  /\ lastName' = << >>
  /\ retBST' = NotFound
  /\ retHT' = NotFound
  /\ UNCHANGED <<ht, htmem, bst, bstmem, order, seen, firstRet, allDistinct,
                 resizes, hf>>

Next == Add \/ Search \/ Destroy

Spec == Init /\ [][Next]_vars

\* ---------------------------------------------------- hash_function alone
\* The inputs of the call: a byte string, the signedness of plain char in the
\* build, and a capacity.
InitHash ==
  /\ TablesCreated
  /\ order = Order(0, 1)
  /\ hf \in [bytes : HashInputBytes, signed : BOOLEAN,
             capacity : 1..MaxHashCap, index : {NotFound}, before : {NotFound}]

\* the unchanged tables of this specification
tables == <<ht, htmem, bst, bstmem, order, seen, firstRet, allDistinct, resizes,
            htTrace, bstTrace, lastOp, lastName, retBST, retHT>>

\* hash_function(name, capacity), the first call
HashCall ==
  /\ hf.index = NotFound
  /\ hf' = [hf EXCEPT !.index =
                hash_function(AsChars(hf.bytes, hf.signed), hf.capacity)]
  /\ UNCHANGED tables

\* hash_function for the same name at the doubled capacity, as st_resize
\* calls it
HashCallDoubled ==
  /\ hf.index # NotFound
  /\ 2 * hf.capacity <= 2 * MaxHashCap
  /\ hf' = [hf EXCEPT !.capacity = 2 * hf.capacity,
                       !.before = hf.index,
                       !.index = hash_function(AsChars(hf.bytes, hf.signed),
                                               2 * hf.capacity)]
  /\ UNCHANGED tables

NextHash == HashCall \/ HashCallDoubled

SpecHash == InitHash /\ [][NextHash]_vars

\* ------------------------------------------------- observation operators
\* index of a name in the history of first adds (0 when absent)
IndexOf(name, s) ==
  IF \E i \in 1..Len(s) : s[i] = name
  THEN CHOOSE i \in 1..Len(s) : s[i] = name
  ELSE 0

RECURSIVE ChainOf(_, _)
\* the entries of a chain, head first
ChainOf(mem, entry) ==
  IF entry = NULL THEN << >> ELSE << entry >> \o ChainOf(mem, mem[entry].next)

\* the (name, position) pairs stored in the hash table, over all buckets
HTPairs(st, mem) ==
  UNION { { << mem[e].name, mem[e].position >> : e \in Range(ChainOf(mem, st.buckets[i])) }
          : i \in 0..(st.capacity - 1) }

\* the slots of one bucket: bucket index, place in the chain (1 = head) and
\* the entry stored there
BucketSlots(mem, i, head) ==
  LET chain == ChainOf(mem, head)
  IN { [bucket |-> i, at |-> j, entry |-> chain[j]] : j \in 1..Len(chain) }

\* every slot of the hash table, over all buckets
HTSlots(st, mem) ==
  UNION { BucketSlots(mem, i, st.buckets[i]) : i \in 0..(st.capacity - 1) }

\* the step is an add that called st_resize
ResizeStep == resizes' # resizes

\* the step is an add of a name that is already in the table
DuplicateAddStep == lastOp' = "add" /\ Len(seen') = Len(seen)

\* the step is an add of a name that is not yet in the table
NewAddStep == lastOp' = "add" /\ Len(seen') = Len(seen) + 1

RECURSIVE SubtreeNames(_, _)
\* the keys of the subtree rooted at root
SubtreeNames(mem, root) ==
  IF root = NULL THEN {}
  ELSE SubtreeNames(mem, mem[root].left) \cup { mem[root].name }
       \cup SubtreeNames(mem, mem[root].right)

RECURSIVE SubtreeNodes(_, _)
SubtreeNodes(mem, root) ==
  IF root = NULL THEN {}
  ELSE SubtreeNodes(mem, mem[root].left) \cup { root }
       \cup SubtreeNodes(mem, mem[root].right)

Called == lastOp \in {"add", "search"}

\* ------------------------------------------------------------------ claims

\* C1: while every add so far introduced a new name, the k-th add returns
\* k - 1 in the BST backend and in the hash backend, and so did every earlier
\* add of the run, also after the hash table was resized.
C1_DistinctAddsInOrder ==
  allDistinct =>
    /\ \A i \in 1..Len(seen) : firstRet[i] = << i - 1, i - 1 >>
    /\ lastOp = "add" => (retBST = Len(seen) - 1 /\ retHT = Len(seen) - 1)

C1_Witness ==
  /\ allDistinct
  /\ lastOp = "add"
  /\ Len(seen) = 16
  /\ resizes = 2
  /\ retBST = 15
  /\ retHT = 15

\* C2: round trip.  For every name an add returned a position for, a search
\* in the current table returns that position, in both backends, whatever
\* adds happened in between.
C2_RoundTrip ==
  /\ \A i \in 1..Len(seen) :
       /\ st_search_bst(bst, bstmem, seen[i]) = firstRet[i][1]
       /\ st_search_ht(ht, htmem, seen[i]) = firstRet[i][2]
  /\ lastOp = "add" =>
       /\ st_search_bst(bst, bstmem, lastName) = retBST
       /\ st_search_ht(ht, htmem, lastName) = retHT
  /\ (lastOp = "search" /\ IndexOf(lastName, seen) # 0) =>
       << retBST, retHT >> = firstRet[IndexOf(lastName, seen)]

C2_Witness ==
  /\ lastOp = "search"
  /\ IndexOf(lastName, seen) = 1
  /\ ~allDistinct
  /\ resizes = 2
  /\ retHT = firstRet[1][2]
  /\ retBST = firstRet[1][1]

\* C3: idempotence.  Every add of a name returns what the first add of that
\* name returned, and the size of each table is the number of distinct names
\* added.
C3_Idempotent ==
  /\ lastOp = "add" =>
       /\ IndexOf(lastName, seen) # 0
       /\ << retBST, retHT >> = firstRet[IndexOf(lastName, seen)]
  /\ bst.size = Cardinality(Range(seen))
  /\ ht.size = Cardinality(Range(seen))

C3_Witness ==
  /\ lastOp = "add"
  /\ ~allDistinct
  /\ IndexOf(lastName, seen) \in 1..(Len(seen) - 1)
  /\ Len(seen) >= 9
  /\ bst.size = Len(seen)
  /\ ht.size = Len(seen)

\* C4: a search for a name that was never added returns NotFound (-1) in
\* both backends, and a search for a name that was added returns a position
\* >= 0, never NotFound.
C4_NotFound ==
  /\ \A name \in PoolNames \ Range(seen) :
       /\ st_search_bst(bst, bstmem, name) = NotFound
       /\ st_search_ht(ht, htmem, name) = NotFound
  /\ \A name \in Range(seen) :
       /\ st_search_bst(bst, bstmem, name) >= 0
       /\ st_search_ht(ht, htmem, name) >= 0
  /\ (lastOp = "search" /\ lastName \notin Range(seen)) =>
       (retBST = NotFound /\ retHT = NotFound)
  /\ (Called /\ lastName \in Range(seen)) => (retBST >= 0 /\ retHT >= 0)

C4_Witness ==
  /\ lastOp = "search"
  /\ lastName \notin Range(seen)
  /\ retBST = NotFound
  /\ retHT = NotFound
  /\ resizes >= 1
  /\ Len(seen) >= 9

\* C5: hash backend: after every call, size / capacity <= 0.75.
C5_LoadFactor == ThresholdDen * ht.size <= ThresholdNum * ht.capacity

C5_Witness ==
  /\ lastOp = "add"
  /\ resizes = 1
  /\ ht.capacity = 2 * INITIAL_TABLE_SIZE
  /\ ThresholdDen * ht.size = ThresholdNum * ht.capacity

\* C6: hash backend: st_resize preserves all positions.  In every add that
\* resizes, the table that st_resize returns stores the same (name, position)
\* pairs as the table it was given, and every name added before finds in it,
\* and in the table the add leaves behind, the position it had before.
C6_ResizeStep ==
  resizes' # resizes =>
    LET r == st_resize(ht, htmem)
    IN /\ HTPairs(r.st, r.mem) = HTPairs(ht, htmem)
       /\ \A name \in Range(seen) :
            /\ st_search_ht(ht, htmem, name) >= 0
            /\ st_search_ht(r.st, r.mem, name) = st_search_ht(ht, htmem, name)
            /\ st_search_ht(ht', htmem', name) = st_search_ht(ht, htmem, name)

\* C6: every step of the program satisfies the resize step property above:
\* st_resize never changes the (name, position) pairs of the hash table.
C6_ResizePreservesPositions == [][C6_ResizeStep]_vars

\* a second resize has happened, with a bucket holding a chain of two
C6_Witness ==
  /\ resizes = 2
  /\ ht.capacity = 4 * INITIAL_TABLE_SIZE
  /\ Cardinality(HTPairs(ht, htmem)) = 16
  /\ \E i \in 0..(ht.capacity - 1) : Len(ChainOf(htmem, ht.buckets[i])) >= 2

\* C7: BST backend: at every node the keys of the left subtree are less than
\* the node's key and the keys of the right subtree are greater, no key
\* occurs twice, and the in-order traversal is strictly ascending.
C7_BSTOrdered ==
  /\ \A n \in SubtreeNodes(bstmem, bst.root) :
       /\ \A k \in SubtreeNames(bstmem, bstmem[n].left) :
            strcmp(k, bstmem[n].name) < 0
       /\ \A k \in SubtreeNames(bstmem, bstmem[n].right) :
            strcmp(k, bstmem[n].name) > 0
  /\ LET io == inorder_traversal(bstmem, bst.root)
     IN /\ Len(io) = Len(bstmem)
        /\ Len(io) = bst.size
        /\ \A i \in 1..(Len(io) - 1) : strcmp(io[i], io[i + 1]) < 0

\* a tree of 16 names, adds repeated, with a node that has two children
C7_Witness ==
  /\ bst.size = 16
  /\ ~allDistinct
  /\ lastOp = "add"
  /\ \E n \in SubtreeNodes(bstmem, bst.root) :
       bstmem[n].left # NULL /\ bstmem[n].right # NULL

\* C8: hash backend: once 9 distinct names were added to the fresh table of
\* capacity 10, exactly one resize has happened, the capacity is 20, and
\* each of the 9 names is found at the position its add returned.
C8_NineNames ==
  Len(seen) = 9 =>
    /\ resizes = 1
    /\ ht.capacity = 2 * INITIAL_TABLE_SIZE
    /\ ht.size = 9
    /\ \A i \in 1..9 : st_search_ht(ht, htmem, seen[i]) = firstRet[i][2]
    /\ \A i \in 1..9 : firstRet[i][2] = i - 1

C8_Witness ==
  /\ Len(seen) = 9
  /\ allDistinct
  /\ lastOp = "add"
  /\ retHT = 8
  /\ resizes = 1
  /\ ht.capacity = 20

\* C9: every call returns the same value in the BST backend and in the hash
\* backend.
C9_SameResults == Called => retBST = retHT

C9_Witness ==
  /\ lastOp = "search"
  /\ retBST = NotFound
  /\ retHT = NotFound
  /\ resizes = 2
  /\ ~allDistinct

\* C10: the position an add returns for a name is the number of distinct
\* names added before that name's first add, in both backends, however the
\* adds repeat names; and an add that inserts into the BST returns the
\* table's count from before the call.
C10_FirstSeenOrder ==
  lastOp = "add" =>
    /\ IndexOf(lastName, seen) # 0
    /\ retBST = IndexOf(lastName, seen) - 1
    /\ retHT = IndexOf(lastName, seen) - 1

C10_InsertStep ==
  (lastOp' = "add" /\ Len(seen') > Len(seen)) =>
    (retBST' = bst.size /\ bst'.size = bst.size + 1)

\* C10: positions follow first-seen order in every state, and every BST
\* insert returns the count from before the call.
C10_Positions == [](C10_FirstSeenOrder) /\ [][C10_InsertStep]_vars

\* an add of a new name after some add repeated an earlier name
C10_Witness ==
  /\ lastOp = "add"
  /\ ~allDistinct
  /\ lastName = seen[Len(seen)]
  /\ Len(seen) >= 9
  /\ retBST = Len(seen) - 1
  /\ retHT = Len(seen) - 1

\* C11: an add of a name that is already in the table changes nothing: in
\* the hash backend the table struct (buckets, capacity, size,
\* next_position) and every entry (so every chain and its order) stay as
\* they were and st_resize is not called, also when size + 1 is over the
\* load threshold; in the BST backend the tree, the positions and the count
\* stay as they were.
C11_DuplicateAdd ==
  DuplicateAddStep =>
    /\ lastName' \in Range(seen)
    /\ ht' = ht
    /\ htmem' = htmem
    /\ HTSlots(ht', htmem') = HTSlots(ht, htmem)
    /\ resizes' = resizes
    /\ bst' = bst
    /\ bstmem' = bstmem

\* C11: every step of the program satisfies the step property above: an add
\* of a name that is already present mutates nothing in either backend.
C11_NoMutation == [][C11_DuplicateAdd]_vars

\* a repeated add has just returned on a table whose next insertion would
\* resize it (7 of 10), and no resize has happened
C11_Witness ==
  /\ lastOp = "add"
  /\ Len(seen) = 7
  /\ lastName = seen[3]
  /\ retHT = 2
  /\ retBST = 2
  /\ ht.size = 7
  /\ ht.capacity = INITIAL_TABLE_SIZE
  /\ ThresholdDen * (ht.size + 1) > ThresholdNum * ht.capacity
  /\ resizes = 0

\* no two slots of the table hold entries with the same name
OneEntryPerName(st, mem) ==
  \A s1, s2 \in HTSlots(st, mem) :
    strcmp(mem[s1.entry].name, mem[s2.entry].name) = 0 => s1 = s2

\* C12: hash backend: across all buckets at most one entry exists for each
\* name, in every state; the table st_resize hands back to st_add has the
\* same property.
C12_ResizeStep ==
  ResizeStep =>
    LET r == st_resize(ht, htmem) IN OneEntryPerName(r.st, r.mem)

\* C12: at most one entry per name in every state, and in the table every
\* st_resize returns.
C12_Unique == [](OneEntryPerName(ht, htmem)) /\ [][C12_ResizeStep]_vars

\* names were added again after both resizes and the table still has 16
\* slots
C12_Witness ==
  /\ resizes = 2
  /\ ~allDistinct
  /\ lastOp = "add"
  /\ lastName # seen[Len(seen)]
  /\ Cardinality(HTSlots(ht, htmem)) = 16

\* C13: an add of a new name calls st_resize exactly when
\* (size + 1) / capacity > 0.75 with the values from before the insertion,
\* and at most once; no other step resizes.  From the fresh table the first
\* resize happens in the 8th distinct add, and the add at size 14 and
\* capacity 20 (quotient exactly 0.75) does not resize.
C13_AddStep ==
  /\ resizes' \in {resizes, resizes + 1}
  /\ ResizeStep <=>
       (NewAddStep /\ ThresholdDen * (ht.size + 1) > ThresholdNum * ht.capacity)
  /\ ht'.capacity = IF ResizeStep THEN 2 * ht.capacity ELSE ht.capacity

C13_FirstResize ==
  /\ Len(seen) < 8 => (resizes = 0 /\ ht.capacity = INITIAL_TABLE_SIZE)
  /\ Len(seen) \in 8..15 => (resizes = 1 /\ ht.capacity = 2 * INITIAL_TABLE_SIZE)

\* C13: the first resize is in the 8th distinct add, and every step resizes
\* exactly when it adds a new name over the load threshold, once.
C13_ResizeTiming == [](C13_FirstResize) /\ [][C13_AddStep]_vars

\* the 15th distinct name was just added at size 14, capacity 20, without a
\* resize
C13_Witness ==
  /\ lastOp = "add"
  /\ Len(seen) = 15
  /\ lastName = seen[15]
  /\ ht.size = 15
  /\ ht.capacity = 2 * INITIAL_TABLE_SIZE
  /\ resizes = 1

\* C14: st_resize doubles the capacity exactly, the size it counts again is
\* the size from before, and the table holds the same entries as before,
\* each in exactly one slot.
C14_ResizeStep ==
  ResizeStep =>
    LET r == st_resize(ht, htmem)
        before == HTSlots(ht, htmem)
        after == HTSlots(r.st, r.mem)
    IN /\ r.st.capacity = 2 * ht.capacity
       /\ DOMAIN r.st.buckets = 0..(2 * ht.capacity - 1)
       /\ r.st.size = ht.size
       /\ { s.entry : s \in after } = { s.entry : s \in before }
       /\ Cardinality(after) = Cardinality(before)
       /\ Cardinality(after) = ht.size
       /\ ht'.capacity = r.st.capacity
       /\ ht'.size = r.st.size + 1

\* C14: every resize doubles the capacity, recounts the same size and keeps
\* every entry exactly once.
C14_ResizeCounts == [][C14_ResizeStep]_vars

\* right after the second resize: 15 entries moved, the 16th inserted
C14_Witness ==
  /\ lastOp = "add"
  /\ lastName = seen[Len(seen)]
  /\ Len(seen) = 16
  /\ resizes = 2
  /\ ht.capacity = 4 * INITIAL_TABLE_SIZE
  /\ ht.size = 16
  /\ Cardinality(HTSlots(ht, htmem)) = 16

\* no two slots of the table hold the same position
DistinctPositions(st, mem) ==
  \A s1, s2 \in HTSlots(st, mem) :
    mem[s1.entry].position = mem[s2.entry].position => s1 = s2

\* C15: hash backend: next_position never decreases, and no two entries
\* hold the same position, in every state and in the table st_resize hands
\* back.
C15_Step ==
  /\ ht'.next_position >= ht.next_position
  /\ ResizeStep =>
       LET r == st_resize(ht, htmem)
       IN /\ r.st.next_position = ht.next_position
          /\ DistinctPositions(r.st, r.mem)

\* C15: positions of stored entries are pairwise distinct in every state,
\* and no step decreases next_position or lets st_resize touch it.
C15_Monotone == [](DistinctPositions(ht, htmem)) /\ [][C15_Step]_vars

\* the counter stands at 16 after two resizes and repeated adds
C15_Witness ==
  /\ resizes = 2
  /\ ht.next_position = 16
  /\ ~allDistinct
  /\ { htmem[s.entry].position : s \in HTSlots(ht, htmem) } = 0..15

\* C16: st_resize reverses chains: two entries that share a bucket of the
\* resized table shared a bucket before, and the one nearer the head now was
\* the one farther from the head then.
C16_ResizeStep ==
  ResizeStep =>
    LET r == st_resize(ht, htmem)
        before == HTSlots(ht, htmem)
        after == HTSlots(r.st, r.mem)
    IN \A n1, n2 \in after :
         (n1.bucket = n2.bucket /\ n1.at < n2.at) =>
           \E o1, o2 \in before :
             /\ o1.entry = n1.entry
             /\ o2.entry = n2.entry
             /\ o1.bucket = o2.bucket
             /\ o1.at > o2.at

\* C16: every resize reverses the relative order of entries that share a
\* bucket afterwards.
C16_Reversed == [][C16_ResizeStep]_vars

\* after the second resize a bucket holds two moved entries, the older one
\* at the head
C16_Witness ==
  /\ resizes = 2
  /\ lastOp = "add"
  /\ Len(seen) = 16
  /\ lastName = seen[16]
  /\ \E n1, n2 \in HTSlots(ht, htmem) :
       /\ n1.bucket = n2.bucket
       /\ n1.at < n2.at
       /\ htmem[n1.entry].position < htmem[n2.entry].position
       /\ htmem[n2.entry].position < 15

\* every slot's entry is in the bucket its name hashes to at the capacity
\* of the table
PlacedByHash(st, mem) ==
  \A s \in HTSlots(st, mem) :
    s.bucket = hash_function(mem[s.entry].name, st.capacity)

\* C19: hash backend: every entry is stored in bucket
\* hash_function(entry.name, current capacity), in every state between
\* operations and in the table st_resize hands back.
C19_ResizeStep ==
  ResizeStep =>
    LET r == st_resize(ht, htmem) IN PlacedByHash(r.st, r.mem)

\* C19: every entry sits in the bucket its name hashes to at the current
\* capacity, in every state and right after every st_resize.
C19_Placement == [](PlacedByHash(ht, htmem)) /\ [][C19_ResizeStep]_vars

\* the 16th name was inserted by the add that resized to capacity 40, into
\* a bucket that did not exist at capacity 20
C19_Witness ==
  /\ resizes = 2
  /\ lastOp = "add"
  /\ Len(seen) = 16
  /\ lastName = seen[16]
  /\ ht.capacity = 4 * INITIAL_TABLE_SIZE
  /\ \E s \in HTSlots(ht, htmem) :
       /\ htmem[s.entry].name = lastName
       /\ s.bucket >= 2 * INITIAL_TABLE_SIZE
       /\ s.bucket = hash_function(lastName, ht.capacity)

\* the positions held by the entries of the table
HTPositions(st, mem) == { mem[s.entry].position : s \in HTSlots(st, mem) }

\* size equals next_position, and the positions held by the entries are
\* exactly 0 .. size - 1, one entry each
DensePositions(st, mem) ==
  /\ st.size = st.next_position
  /\ HTPositions(st, mem) = 0..(st.size - 1)
  /\ Cardinality(HTSlots(st, mem)) = st.size

C20_ResizeStep ==
  ResizeStep => LET r == st_resize(ht, htmem) IN DensePositions(r.st, r.mem)

\* C20: size equals next_position and the held positions are 0 .. size - 1,
\* in every state and right after every st_resize.
C20_SizeIsNextPosition == [](DensePositions(ht, htmem)) /\ [][C20_ResizeStep]_vars

\* after two resizes and repeated adds the counters agree at 16
C20_Witness ==
  /\ resizes = 2
  /\ ~allDistinct
  /\ lastOp = "add"
  /\ ht.size = 16
  /\ ht.next_position = 16
  /\ HTPositions(ht, htmem) = 0..15

\* the allocations each backend has made so far
HTOwned ==
  { HTTableAlloc } \cup { HTBucketsAlloc(g) : g \in 0..resizes }
  \cup { HTEntryAlloc(e) : e \in 1..Len(htmem) }
  \cup { HTNameAlloc(e) : e \in 1..Len(htmem) }

BSTOwned ==
  { BSTTableAlloc } \cup { BSTNodeAlloc(n) : n \in 1..Len(bstmem) }
  \cup { BSTNameAlloc(n) : n \in 1..Len(bstmem) }

\* the places of a trace where obj is freed, and the allocations it frees
FreesOf(trace, obj) == { i \in 1..Len(trace) : trace[i] = Free(obj) }

Freed(trace) == { trace[i].obj : i \in { j \in 1..Len(trace) : trace[j].op = "free" } }

FreeIndex(trace, obj) == CHOOSE i \in 1..Len(trace) : trace[i] = Free(obj)

\* every allocation of the set is freed exactly once, and nothing else is
ReleasedOnce(trace, owned) ==
  /\ Freed(trace) = owned
  /\ \A obj \in owned : Cardinality(FreesOf(trace, obj)) = 1

\* no event touches an allocation after the event that freed it
NoUseAfterFree(trace) ==
  \A i \in 1..Len(trace) :
    trace[i].op = "free" =>
      \A j \in (i + 1)..Len(trace) : trace[j].obj # trace[i].obj

\* after st_destroy: everything released once, nothing touched after its
\* release; BST children before their parent, the table last; hash entries
\* before the current bucket array, the array before the table
C17_Destroyed ==
  lastOp = "destroy" =>
    /\ ReleasedOnce(htTrace, HTOwned)
    /\ NoUseAfterFree(htTrace)
    /\ ReleasedOnce(bstTrace, BSTOwned)
    /\ NoUseAfterFree(bstTrace)
    /\ \A n \in 1..Len(bstmem) :
         /\ \A c \in { bstmem[n].left, bstmem[n].right } \ { NULL } :
              /\ FreeIndex(bstTrace, BSTNodeAlloc(c)) < FreeIndex(bstTrace, BSTNodeAlloc(n))
              /\ FreeIndex(bstTrace, BSTNameAlloc(c)) < FreeIndex(bstTrace, BSTNodeAlloc(n))
         /\ FreeIndex(bstTrace, BSTNameAlloc(n)) < FreeIndex(bstTrace, BSTNodeAlloc(n))
         /\ FreeIndex(bstTrace, BSTNodeAlloc(n)) < FreeIndex(bstTrace, BSTTableAlloc)
    /\ FreeIndex(bstTrace, BSTTableAlloc) = Len(bstTrace)
    /\ \A e \in 1..Len(htmem) :
         /\ FreeIndex(htTrace, HTNameAlloc(e)) < FreeIndex(htTrace, HTEntryAlloc(e))
         /\ FreeIndex(htTrace, HTEntryAlloc(e))
              < FreeIndex(htTrace, HTBucketsAlloc(resizes))
    /\ \A g \in 0..(resizes - 1) :
         FreeIndex(htTrace, HTBucketsAlloc(g)) < FreeIndex(htTrace, HTBucketsAlloc(g + 1))
    /\ FreeIndex(htTrace, HTBucketsAlloc(resizes)) = Len(htTrace) - 1
    /\ FreeIndex(htTrace, HTTableAlloc) = Len(htTrace)

\* before st_destroy: the superseded bucket arrays are released, each once,
\* and nothing else; and st_destroy, called now, runs to its end on both
\* tables and releases everything that is left, once
C17_Live ==
  Live =>
    /\ ReleasedOnce(htTrace, { HTBucketsAlloc(g) : g \in 0..(resizes - 1) })
    /\ NoUseAfterFree(htTrace)
    /\ bstTrace = << >>
    /\ LET h == htTrace \o st_destroy_ht(ht, htmem, resizes)
           b == st_destroy_bst(bst, bstmem)
       IN /\ ReleasedOnce(h, HTOwned)
          /\ NoUseAfterFree(h)
          /\ ReleasedOnce(b, BSTOwned)
          /\ NoUseAfterFree(b)

\* a bucket array is released by the resize that replaces it, as the last
\* thing the resize does to it, and by no other step before st_destroy
C17_ResizeStep ==
  /\ ResizeStep =>
       /\ Len(htTrace') > Len(htTrace)
       /\ htTrace'[Len(htTrace')] = Free(HTBucketsAlloc(resizes))
       /\ FreesOf(htTrace', HTBucketsAlloc(resizes)) = { Len(htTrace') }
  /\ (~ResizeStep /\ lastOp' # "destroy") => htTrace' = htTrace

\* C17: st_destroy can be called after any sequence of adds and releases
\* every allocation of its backend exactly once without touching one after
\* its release: BST children before the parent; hash entries, then the
\* current bucket array, then the table; each superseded bucket array was
\* released once, by the resize that replaced it.
C17_DestroyExactlyOnce ==
  [](C17_Destroyed) /\ [](C17_Live) /\ [][C17_ResizeStep]_vars

\* both tables destroyed after 16 names and two resizes, with a chain of two
\* entries and a tree node with two children
C17_Witness ==
  /\ lastOp = "destroy"
  /\ resizes = 2
  /\ Len(htmem) = 16
  /\ Len(bstmem) = 16
  /\ ~allDistinct
  /\ \E i \in 0..(ht.capacity - 1) : Len(ChainOf(htmem, ht.buckets[i])) >= 2
  /\ \E n \in 1..Len(bstmem) : bstmem[n].left # NULL /\ bstmem[n].right # NULL
  /\ Cardinality(Freed(htTrace)) = 36
  /\ Cardinality(Freed(bstTrace)) = 33

\* the djb2 fold of the chars str[i..] onto h, in the integers modulo m
RECURSIVE FoldMod(_, _, _)
FoldMod(s, str, m) ==
  IF s.i > Len(str) THEN s.h
  ELSE FoldMod([h |-> (s.h * 33 + str[s.i] + 256 * m) % m, i |-> s.i + 1], str, m)

\* 5381 folded with hash * 33 + c over the chars of the name, modulo m
Djb2Mod(str, m) == FoldMod([h |-> DJB2_SEED % m, i |-> 1], str, m)

\* the fold of a name of up to 10 chars stays below 2^64
NoWrapLen == 10

====
